---- MODULE Spec2Model ----
(***************************************************************************)
(* A model of the per-frame draw core of ledge: Transform / DrawInfo       *)
(* (src/src/graphics/mod.rs), the blend-mode keyed pipeline set and the    *)
(* shader program (src/src/graphics/shader.rs), the sprite batch and the   *)
(* frame protocol (begin_frame / draw / draw_with / present).              *)
(*                                                                         *)
(* Numbers: f32 values are modelled by integers; every value used is a     *)
(* small integer, on which f32 addition and multiplication are exact.      *)
(* Angles are counted in quarter turns, so that sine and cosine are exact. *)
(* A Matrix4 is a 4-tuple of columns, each a 4-tuple (cgmath is            *)
(* column-major: m[c][r] is column c, row r).                              *)
(***************************************************************************)
EXTENDS Integers, Sequences, FiniteSets, TLC

VARIABLES
    params,          \* the DrawInfo the application is building
    history,         \* the mutator calls made on params since it was created
    instance,        \* the instance record params was last converted to, or None
    shadow,          \* a second DrawInfo, built by the same calls with other z arguments
    shadow_instance, \* the instance record shadow was last converted to, or None
    built,           \* the pipelines built so far by new_pipeline, in order
    pos,             \* a PipelineObjectSet owned by the caller
    first_bound,     \* for each mode of pos, the handle of its first insert
    prog,            \* a ShaderProgram, or NoProgram before it is constructed
    registered,      \* the (mode, handle) pair the constructor of prog registered
    lastCall,        \* the last call made on pos / prog and what it returned
    batch,           \* the SpriteBatch
    flat,            \* the output of the last flatten (or None)
    prevFlat,        \* the output of the flatten before, if no insert came between
    inserted,        \* the DrawInfo values passed to insert, in call order
    current_shader,  \* ctx.current_shader: Some(ShaderId) or None
    command_buffer,  \* the commands recorded in the current frame (submitted by present)
    phase,           \* "idle" | "frame" | "aborted"
    lastDraw         \* the last draw / draw_with call and how it ended

vars == <<params, history, instance, shadow, shadow_instance, built, pos, first_bound, prog, registered, lastCall,
          batch, flat, prevFlat, inserted, current_shader, command_buffer, phase, lastDraw>>

transformVars == <<params, history, instance, shadow, shadow_instance>>
pipelineVars == <<built, pos, first_bound, prog, registered, lastCall>>
drawVars == <<batch, flat, prevFlat, inserted, current_shader, command_buffer, phase, lastDraw>>

\* Option<T>, and the outcome of a call that may panic
None == [tag |-> "None"]
Some(x) == [tag |-> "Some", val |-> x]
Panic == [tag |-> "Panic"]
Ret(x) == [tag |-> "Ret", val |-> x]
unwrap(opt) == IF opt.tag = "Some" THEN Ret(opt.val) ELSE Panic

NoProgram == [tag |-> "NoProgram"]

(***************************************************************************)
(* Bounds of the model.                                                    *)
(***************************************************************************)
MaxOps == 3
MaxPipelines == 2
MaxSprites == 4
MaxDraws == 1

(***************************************************************************)
(* cgmath: Vector3, Matrix4.                                               *)
(***************************************************************************)
Vec3Add(a, b) == <<a[1] + b[1], a[2] + b[2], a[3] + b[3]>>

Mat4Identity == << <<1, 0, 0, 0>>, <<0, 1, 0, 0>>, <<0, 0, 1, 0>>, <<0, 0, 0, 1>> >>

Mat4Mul(A, B) ==
    [c \in 1..4 |-> [r \in 1..4 |->
        A[1][r] * B[c][1] + A[2][r] * B[c][2] + A[3][r] * B[c][3] + A[4][r] * B[c][4]]]

Mat4Add(A, B) == [c \in 1..4 |-> [r \in 1..4 |-> A[c][r] + B[c][r]]]

Mat4Transpose(M) == [c \in 1..4 |-> [r \in 1..4 |-> M[r][c]]]

from_cols(c0, c1, c2, c3) == <<c0, c1, c2, c3>>

from_translation(v) ==
    << <<1, 0, 0, 0>>, <<0, 1, 0, 0>>, <<0, 0, 1, 0>>, <<v[1], v[2], v[3], 1>> >>

from_nonuniform_scale(x, y, z) ==
    << <<x, 0, 0, 0>>, <<0, y, 0, 0>>, <<0, 0, z, 0>>, <<0, 0, 0, 1>> >>

\* sine and cosine of an angle of q quarter turns
SinQ(q) == CASE q % 4 = 0 -> 0 [] q % 4 = 1 -> 1 [] q % 4 = 2 -> 0 [] OTHER -> -1
CosQ(q) == CASE q % 4 = 0 -> 1 [] q % 4 = 1 -> 0 [] q % 4 = 2 -> -1 [] OTHER -> 0

from_angle_x(q) ==
    << <<1, 0, 0, 0>>, <<0, CosQ(q), SinQ(q), 0>>, <<0, -SinQ(q), CosQ(q), 0>>, <<0, 0, 0, 1>> >>
from_angle_y(q) ==
    << <<CosQ(q), 0, -SinQ(q), 0>>, <<0, 1, 0, 0>>, <<SinQ(q), 0, CosQ(q), 0>>, <<0, 0, 0, 1>> >>
from_angle_z(q) ==
    << <<CosQ(q), SinQ(q), 0, 0>>, <<-SinQ(q), CosQ(q), 0, 0>>, <<0, 0, 1, 0>>, <<0, 0, 0, 1>> >>

(***************************************************************************)
(* Transform (mod.rs 258-373).                                             *)
(***************************************************************************)
Components(pos_, rotation_, scale_, offset_) ==
    [shape |-> "Components", pos |-> pos_, rotation |-> rotation_,
     scale |-> scale_, offset |-> offset_]

Matrix(mat_) == [shape |-> "Matrix", mat |-> mat_]

\* an identity whose every field is zero, the scale included
Transform_identity_zeroed == Components(<<0, 0, 0>>, 0, <<0, 0, 0>>, <<0, 0, 0>>)

Transform_identity == Components(<<0, 0, 0>>, 0, <<1, 1, 1>>, <<0, 0, 0>>)

\* an as_mat4 that leaves out the final transpose
\* a conversion that carries the z of the scale and of the position into the matrix
as_mat4_with_z(t) ==
    IF t.shape = "Matrix" THEN t.mat
    ELSE
        LET sinr == SinQ(t.rotation)
            cosr == CosQ(t.rotation)
            cr00 == cosr * t.scale[1]
            cr01 == (-sinr) * t.scale[2]
            cr10 == sinr * t.scale[1]
            cr11 == cosr * t.scale[2]
            cr03 == t.offset[1] * (1 - cr00) - t.offset[2] * cr01 + t.pos[1]
            cr13 == t.offset[2] * (1 - cr11) - t.offset[1] * cr10 + t.pos[2]
        IN  Mat4Transpose(from_cols(<<cr00, cr01, 0, cr03>>,
                                    <<cr10, cr11, 0, cr13>>,
                                    <<0, 0, t.scale[3], t.pos[3]>>,
                                    <<0, 0, 0, 1>>))

as_mat4_no_transpose(t) ==
    IF t.shape = "Matrix" THEN t.mat
    ELSE
        LET sinr == SinQ(t.rotation)
            cosr == CosQ(t.rotation)
            cr00 == cosr * t.scale[1]
            cr01 == (-sinr) * t.scale[2]
            cr10 == sinr * t.scale[1]
            cr11 == cosr * t.scale[2]
            cr03 == t.offset[1] * (1 - cr00) - t.offset[2] * cr01 + t.pos[1]
            cr13 == t.offset[2] * (1 - cr11) - t.offset[1] * cr10 + t.pos[2]
        IN  from_cols(<<cr00, cr01, 0, cr03>>,
                      <<cr10, cr11, 0, cr13>>,
                      <<0, 0, 1, 0>>,
                      <<0, 0, 0, 1>>)

as_mat4(t) ==
    IF t.shape = "Matrix" THEN t.mat
    ELSE
        LET sinr == SinQ(t.rotation)
            cosr == CosQ(t.rotation)
            cr00 == cosr * t.scale[1]
            cr01 == (-sinr) * t.scale[2]
            cr10 == sinr * t.scale[1]
            cr11 == cosr * t.scale[2]
            cr03 == t.offset[1] * (1 - cr00) - t.offset[2] * cr01 + t.pos[1]
            cr13 == t.offset[2] * (1 - cr11) - t.offset[1] * cr10 + t.pos[2]
        IN  Mat4Transpose(from_cols(<<cr00, cr01, 0, cr03>>,
                                    <<cr10, cr11, 0, cr13>>,
                                    <<0, 0, 1, 0>>,
                                    <<0, 0, 0, 1>>))

Transform_dest(t, x, y, z) ==
    IF t.shape = "Matrix" THEN t
    ELSE [t EXCEPT !.pos = <<x, y, z>>]

\* a translate that overwrites the position instead of adding to it
Transform_translate_overwrite(t, x, y, z) ==
    IF t.shape = "Matrix" THEN Matrix(Mat4Mul(from_translation(<<x, y, z>>), t.mat))
    ELSE [t EXCEPT !.pos = <<x, y, z>>]

Transform_translate(t, x, y, z) ==
    IF t.shape = "Matrix" THEN Matrix(Mat4Mul(from_translation(<<x, y, z>>), t.mat))
    ELSE [t EXCEPT !.pos = Vec3Add(t.pos, <<x, y, z>>)]

Transform_rotate(t, x, y, z) ==
    LET rotation == Mat4Add(Mat4Add(from_angle_x(x), from_angle_y(y)), from_angle_z(z))
    IN  IF t.shape = "Matrix" THEN Matrix(Mat4Mul(rotation, t.mat))
        ELSE t

Transform_rotate_value(t, r) ==
    IF t.shape = "Matrix" THEN t
    ELSE [t EXCEPT !.rotation = r]

Transform_nonuniform_scale(t, x, y, z) ==
    IF t.shape = "Matrix" THEN Matrix(Mat4Mul(from_nonuniform_scale(x, y, z), t.mat))
    ELSE [t EXCEPT !.scale = <<x, y, z>>]

(***************************************************************************)
(* Color, Rect, DrawInfo (mod.rs 177-256, 375-459).                        *)
(***************************************************************************)
Color_white == <<1, 1, 1, 1>>
Color_black == <<0, 0, 0, 1>>
Color_transparent == <<0, 0, 0, 0>>

Rect(x_, y_, w_, h_) == [x |-> x_, y |-> y_, w |-> w_, h |-> h_]
Rect_default == Rect(0, 0, 1, 1)
Rect_as_vec(r) == <<r.x, r.y, r.w, r.h>>

DrawInfo_default ==
    [tex_rect |-> Rect_default, color |-> Color_white, transform |-> Transform_identity]
DrawInfo_new ==
    [tex_rect |-> Rect_default, color |-> Color_white, transform |-> Transform_identity]
DrawInfo_reset(info) ==
    [tex_rect |-> Rect_default, color |-> Color_white, transform |-> Transform_identity]
DrawInfo_with_rect(rect) ==
    [tex_rect |-> rect, color |-> Color_white, transform |-> Transform_identity]
DrawInfo_with_transform(t) ==
    [tex_rect |-> Rect_default, color |-> Color_white, transform |-> t]
DrawInfo_with_color(color_) ==
    [tex_rect |-> Rect_default, color |-> color_, transform |-> Transform_identity]

DrawInfo_translate(info, x, y, z) ==
    [info EXCEPT !.transform = Transform_translate(info.transform, x, y, z)]
DrawInfo_rotate(info, x, y, z) ==
    [info EXCEPT !.transform = Transform_rotate(info.transform, x, y, z)]
DrawInfo_rotate_value(info, r) ==
    [info EXCEPT !.transform = Transform_rotate_value(info.transform, r)]
DrawInfo_nonuniform_scale(info, x, y, z) ==
    [info EXCEPT !.transform = Transform_nonuniform_scale(info.transform, x, y, z)]
DrawInfo_scale(info, s) ==
    [info EXCEPT !.transform = Transform_nonuniform_scale(info.transform, s, s, s)]
DrawInfo_dest(info, x, y, z) ==
    [info EXCEPT !.transform = Transform_dest(info.transform, x, y, z)]

(***************************************************************************)
(* BlendMode (mod.rs 31-41), PipelineObjectSet and ShaderProgram           *)
(* (shader.rs 54-223).  A pipeline handle (Arc<GraphicsPipeline>) is its   *)
(* identity: the index of the new_pipeline call that built it, with the    *)
(* blend mode baked into it.                                               *)
(***************************************************************************)
BlendMode == {"Add", "Subtract", "Alpha", "Invert"}

new_pipeline(n, blend) == [id |-> n, blend |-> blend]

PipelineObjectSet_new(cap) == [m \in {} |-> None]

PipelineObjectSet_insert(self, blend_mode, pipeline_) ==
    [m \in DOMAIN self \cup {blend_mode} |->
        IF m = blend_mode THEN pipeline_ ELSE self[m]]

PipelineObjectSet_get(self, blend_mode) ==
    IF blend_mode \in DOMAIN self THEN Some(self[blend_mode]) ELSE None

ShaderProgram_new(n, blend) ==
    LET po == new_pipeline(n, blend)
        pos_ == PipelineObjectSet_insert(PipelineObjectSet_new(16), blend, po)
    IN  [pipelines |-> pos_, current_mode |-> blend]

\* a constructor that registers the pipeline for the mode given but selects
\* the first blend mode as the current one
ShaderProgram_from_pipeline_alpha(mode, pipeline_) ==
    LET pipeline_os == PipelineObjectSet_insert(PipelineObjectSet_new(16), mode, pipeline_)
    IN  [pipelines |-> pipeline_os, current_mode |-> "Alpha"]

ShaderProgram_from_pipeline(mode, pipeline_) ==
    LET pipeline_os == PipelineObjectSet_insert(PipelineObjectSet_new(16), mode, pipeline_)
    IN  [pipelines |-> pipeline_os, current_mode |-> mode]

blend_mode(self) == self.current_mode

\* the descriptor set layouts of a pipeline's layout, by set number
set_layouts(pipeline_) == [i \in 0..1 |-> [pipeline |-> pipeline_.id, set |-> i]]

\* a lookup that falls back to any registered pipeline on a miss
pipeline_fallback(self) ==
    IF self.current_mode \in DOMAIN self.pipelines
    THEN Ret(self.pipelines[self.current_mode])
    ELSE IF DOMAIN self.pipelines = {} THEN Panic
         ELSE Ret(self.pipelines[CHOOSE m \in DOMAIN self.pipelines : TRUE])

\* a lookup that rebuilds the pipeline each time it is asked for
pipeline_rebuild(self) ==
    IF self.current_mode \in DOMAIN self.pipelines
    THEN Ret(new_pipeline(self.pipelines[self.current_mode].id + 1, self.current_mode))
    ELSE Panic

pipeline(self) == unwrap(PipelineObjectSet_get(self.pipelines, self.current_mode))

layout(self) ==
    LET r == unwrap(PipelineObjectSet_get(self.pipelines, self.current_mode))
    IN  IF r.tag = "Panic" THEN Panic ELSE Ret(set_layouts(r.val))

(***************************************************************************)
(* PipelineData (mod.rs 47-53) and Vertex / QUAD_VERTICES (mod.rs 116-165).*)
(***************************************************************************)
Vertex(pos_, uv_, vert_color_) == [pos |-> pos_, uv |-> uv_, vert_color |-> vert_color_]

QUAD_VERTICES ==
    << Vertex(<<0, 0, 0>>, <<0, 0>>, <<1, 1, 1, 1>>),
       Vertex(<<0, 1, 0>>, <<0, 1>>, <<1, 1, 1, 1>>),
       Vertex(<<1, 0, 0>>, <<1, 0>>, <<1, 1, 1, 1>>),
       Vertex(<<1, 1, 0>>, <<1, 1>>, <<1, 1, 1, 1>>) >>

PipelineData(vb, vc, ib, ic, ds) ==
    [vertex_buffer |-> vb, vertex_count |-> vc,
     instance_buffer |-> ib, instance_count |-> ic, descriptors |-> ds]

\* PipelineData::flush: (buffers, descriptors, v_count, i_count)
flush(pipe_data) ==
    [buffers |-> <<pipe_data.vertex_buffer, pipe_data.instance_buffer>>,
     descriptors |-> pipe_data.descriptors,
     v_count |-> pipe_data.vertex_count,
     i_count |-> pipe_data.instance_count]

(***************************************************************************)
(* ShaderProgram::draw (shader.rs 72-97).  fault names the external call   *)
(* whose result the code unwraps and which fails: "none",                  *)
(* "descriptor_set" (PersistentDescriptorSet::new) or "draw"               *)
(* (AutoCommandBufferBuilder::draw).  The result is the command buffer as  *)
(* the call leaves it, and whether the call returned or panicked.          *)
(***************************************************************************)
Faults == {"none", "descriptor_set", "draw"}

DrawResult(tag_, cb) == [tag |-> tag_, command_buffer |-> cb]

\* a draw that issues one draw call per instance
ShaderProgram_draw_per_instance(self, cb, pipe_data, fault) ==
    IF pipeline(self).tag = "Panic" THEN DrawResult("Panic", cb)
    ELSE
        LET f == flush(pipe_data)
            cb1 == Append(cb, [cmd |-> "bind_pipeline_graphics", pipeline |-> pipeline(self).val.id])
        IN  DrawResult("Ret",
                cb1 \o [i \in 1..f.i_count |->
                          [cmd |-> "draw", vertex_count |-> f.v_count, instance_count |-> 1,
                           first_vertex |-> 0, first_instance |-> i - 1]])

ShaderProgram_draw(self, cb, pipe_data, fault) ==
    LET p1 == pipeline(self)
    IN  IF p1.tag = "Panic" THEN DrawResult("Panic", cb)
        ELSE
        LET cb1 == Append(cb, [cmd |-> "bind_pipeline_graphics", pipeline |-> p1.val.id])
            l == layout(self)
        IN  IF l.tag = "Panic" THEN DrawResult("Panic", cb1)
            ELSE
            LET layout_ == l.val[1]
                f == flush(pipe_data)
            IN  IF fault = "descriptor_set" THEN DrawResult("Panic", cb1)
                ELSE
                LET set == [layout |-> layout_, descriptors |-> f.descriptors]
                    p2 == pipeline(self)
                IN  IF p2.tag = "Panic" THEN DrawResult("Panic", cb1)
                    ELSE
                    LET cb2 == Append(cb1, [cmd |-> "bind_descriptor_sets",
                                            pipeline_layout |-> p2.val.id,
                                            first_set |-> 1, set |-> set])
                        cb3 == Append(cb2, [cmd |-> "bind_vertex_buffers",
                                            first_binding |-> 0, buffers |-> f.buffers])
                    IN  IF fault = "draw" THEN DrawResult("Panic", cb3)
                        ELSE DrawResult("Ret",
                                Append(cb3, [cmd |-> "draw",
                                             vertex_count |-> f.v_count,
                                             instance_count |-> f.i_count,
                                             first_vertex |-> 0, first_instance |-> 0]))

(***************************************************************************)
(* InstanceData (mod.rs 126-142).                                          *)
(***************************************************************************)
\* a conversion that packs the color where the source rectangle belongs
InstanceData_from_swapped(info) ==
    [src |-> info.color,
     color |-> Rect_as_vec(info.tex_rect),
     transform |-> as_mat4(info.transform)]

InstanceData_from(info) ==
    [src |-> Rect_as_vec(info.tex_rect),
     color |-> info.color,
     transform |-> as_mat4(info.transform)]

(***************************************************************************)
(* SpriteBatch (graphics::sprite): one image and the DrawInfo values       *)
(* inserted, in order.  flatten and draw take &self (Drawable::draw,       *)
(* mod.rs 43-45); they return the batch as they leave it with their output.*)
(***************************************************************************)
Image == "pokeball"

SpriteBatch_new(image) == [image |-> image, sprites |-> <<>>]

SpriteBatch_insert(self, info) == [self EXCEPT !.sprites = Append(self.sprites, info)]

\* a flatten that hands its instances over and leaves the batch empty
SpriteBatch_flatten_drain(self) ==
    [self |-> [self EXCEPT !.sprites = <<>>],
     vertices |-> QUAD_VERTICES,
     instances |-> [i \in 1..Len(self.sprites) |-> InstanceData_from(self.sprites[i])]]

SpriteBatch_flatten(self) ==
    [self |-> self,
     vertices |-> QUAD_VERTICES,
     instances |-> [i \in 1..Len(self.sprites) |-> InstanceData_from(self.sprites[i])]]

\* the payload of a flattened batch: the quad, the instances and the image binding
SpriteBatch_payload(f, image) ==
    PipelineData(f.vertices, Len(f.vertices), f.instances, Len(f.instances),
                 Some(<<[binding |-> 0, image |-> image]>>))

\* Drawable::draw for SpriteBatch: flatten, pack the payload, hand it to the shader
SpriteBatch_draw(self, shader_program, cb, fault) ==
    LET f == SpriteBatch_flatten(self)
        pipe_data == SpriteBatch_payload(f, self.image)
    IN  [self |-> f.self, result |-> ShaderProgram_draw(shader_program, cb, pipe_data, fault)]

(***************************************************************************)
(* GraphicsContext: the shader selection, the shaders by ShaderId and the  *)
(* command buffer of the frame; graphics::draw and graphics::draw_with     *)
(* (mod.rs 84-114).                                                        *)
(***************************************************************************)
ShaderId == {0, 1}

ContextShaders ==
    [id \in ShaderId |->
        IF id = 0 THEN ShaderProgram_new(0, "Alpha")
        ELSE ShaderProgram_from_pipeline("Add", new_pipeline(1, "Add"))]

Context(cs, cb) == [current_shader |-> cs, command_buffer |-> cb]

CallResult(tag_, ctx, drawable) == [tag |-> tag_, ctx |-> ctx, drawable |-> drawable]

\* the drawable's draw, run against the shader ctx currently selects
Drawable_draw(ctx, drawable, fault) ==
    IF ctx.current_shader.tag = "None" THEN CallResult("Panic", ctx, drawable)
    ELSE
        LET d == SpriteBatch_draw(drawable, ContextShaders[ctx.current_shader.val],
                                  ctx.command_buffer, fault)
        IN  CallResult(d.result.tag,
                       Context(ctx.current_shader, d.result.command_buffer),
                       d.self)

graphics_draw(ctx, drawable, fault) == Drawable_draw(ctx, drawable, fault)

draw_with(ctx, drawable, shader, fault) ==
    LET taken == unwrap(ctx.current_shader)
    IN  IF taken.tag = "Panic" THEN CallResult("Panic", Context(None, ctx.command_buffer), drawable)
        ELSE
        LET prev_shader == taken.val
            ctx1 == Context(Some(shader), ctx.command_buffer)
            d == Drawable_draw(ctx1, drawable, fault)
        IN  IF d.tag = "Panic" THEN d
            ELSE CallResult("Ret", Context(Some(prev_shader), d.ctx.command_buffer), d.drawable)

(***************************************************************************)
(* Inputs the actions draw from.                                           *)
(***************************************************************************)
TVecs == {<<1, 2, 3>>, <<-2, 0, 1>>}
TAngles == {<<0, 0, 0>>, <<0, 0, 1>>}
TRotations == {1, 2}
TScales == {2}

SampleMatrix == Mat4Mul(from_translation(<<1, -1, 2>>), from_nonuniform_scale(2, 1, 3))

InputTransforms ==
    { Matrix(Mat4Identity),
      Matrix(SampleMatrix),
      Components(<<1, 1, 0>>, 1, <<2, 3, 1>>, <<1, 0, 0>>),
      Components(<<0, 2, 5>>, 3, <<1, 2, 4>>, <<2, 1, 3>>) }

SampleInfos ==
    { DrawInfo_translate(DrawInfo_default, 1, 1, 6),
      [tex_rect |-> Rect(0, 0, 2, 2), color |-> Color_black,
       transform |-> Components(<<-1, 1, 6>>, 1, <<2, 3, 1>>, <<1, 0, 0>>)] }

SamplePayloads ==
    { SpriteBatch_payload(SpriteBatch_flatten([image |-> Image, sprites |-> sp]), Image) :
        sp \in { <<>>, <<DrawInfo_default>>,
                 <<DrawInfo_default, DrawInfo_translate(DrawInfo_default, 1, 1, 6)>> } }

EmptyMap == [m \in {} |-> None]
NoCall == [op |-> "none"]
NoDraw == [kind |-> "none"]

(***************************************************************************)
(* Initial state: everything freshly constructed.                          *)
(***************************************************************************)
InitTransform ==
    /\ params = DrawInfo_default
    /\ history = <<>>
    /\ instance = None
    /\ shadow = DrawInfo_default
    /\ shadow_instance = None

InitPipelines ==
    /\ built = <<>>
    /\ pos = PipelineObjectSet_new(16)
    /\ first_bound = EmptyMap
    /\ prog = NoProgram
    /\ registered = None
    /\ lastCall = NoCall

InitDraw ==
    /\ batch = SpriteBatch_new(Image)
    /\ flat = None
    /\ prevFlat = None
    /\ inserted = <<>>
    /\ current_shader = Some(0)
    /\ command_buffer = <<>>
    /\ phase = "idle"
    /\ lastDraw = NoDraw

Init == InitTransform /\ InitPipelines /\ InitDraw

(***************************************************************************)
(* The application building a DrawInfo.                                    *)
(***************************************************************************)
Call(op_, args_) == [op |-> op_, args |-> args_, before |-> params]

CanMutate == Len(history) < MaxOps

Default ==
    /\ params' = DrawInfo_default
    /\ history' = <<>>
    /\ instance' = None
    /\ UNCHANGED <<shadow, shadow_instance, pipelineVars, drawVars>>

WithTransform ==
    \E t \in InputTransforms :
        /\ params' = DrawInfo_with_transform(t)
        /\ history' = <<>>
        /\ instance' = None
        /\ UNCHANGED <<shadow, shadow_instance, pipelineVars, drawVars>>

Translate ==
    \E v \in TVecs :
        /\ CanMutate
        /\ params' = DrawInfo_translate(params, v[1], v[2], v[3])
        /\ history' = Append(history, Call("translate", v))
        /\ instance' = None
        /\ UNCHANGED <<shadow, shadow_instance, pipelineVars, drawVars>>

Rotate ==
    \E v \in TAngles :
        /\ CanMutate
        /\ params' = DrawInfo_rotate(params, v[1], v[2], v[3])
        /\ history' = Append(history, Call("rotate", v))
        /\ instance' = None
        /\ UNCHANGED <<shadow, shadow_instance, pipelineVars, drawVars>>

RotateValue ==
    \E r \in TRotations :
        /\ CanMutate
        /\ params' = DrawInfo_rotate_value(params, r)
        /\ history' = Append(history, Call("rotate_value", <<r>>))
        /\ instance' = None
        /\ UNCHANGED <<shadow, shadow_instance, pipelineVars, drawVars>>

NonuniformScale ==
    \E v \in TVecs :
        /\ CanMutate
        /\ params' = DrawInfo_nonuniform_scale(params, v[1], v[2], v[3])
        /\ history' = Append(history, Call("nonuniform_scale", v))
        /\ instance' = None
        /\ UNCHANGED <<shadow, shadow_instance, pipelineVars, drawVars>>

Scale ==
    \E s \in TScales :
        /\ CanMutate
        /\ params' = DrawInfo_scale(params, s)
        /\ history' = Append(history, Call("scale", <<s, s, s>>))
        /\ instance' = None
        /\ UNCHANGED <<shadow, shadow_instance, pipelineVars, drawVars>>

Dest ==
    \E v \in TVecs :
        /\ CanMutate
        /\ params' = DrawInfo_dest(params, v[1], v[2], v[3])
        /\ history' = Append(history, Call("dest", v))
        /\ instance' = None
        /\ UNCHANGED <<shadow, shadow_instance, pipelineVars, drawVars>>

Reset ==
    /\ CanMutate
    /\ params' = DrawInfo_reset(params)
    /\ history' = Append(history, Call("reset", <<>>))
    /\ instance' = None
    /\ UNCHANGED <<shadow, shadow_instance, pipelineVars, drawVars>>

\* the conversion of params to the instance record of a draw
Convert ==
    /\ instance' = Some(InstanceData_from(params))
    /\ UNCHANGED <<params, history, shadow, shadow_instance, pipelineVars, drawVars>>

NextTransform ==
    \/ Default
    \/ WithTransform
    \/ Translate
    \/ Rotate
    \/ RotateValue
    \/ NonuniformScale
    \/ Scale
    \/ Dest
    \/ Reset
    \/ Convert

SpecTransform == Init /\ [][NextTransform]_vars

\* the DrawInfo as call i of the history left it
After(i) == IF i = Len(history) THEN params ELSE history[i + 1].before

(***************************************************************************)
(* Claims about Transform / DrawInfo, checked under SpecTransform.         *)
(***************************************************************************)
Double(v) == <<2 * v[1], 2 * v[2], 2 * v[3]>>

\* C9: translate accumulates additively.  On every transform the program
\* reaches, in either shape, translating twice by a delta gives the transform
\* that translating once by twice the delta gives; two successive translate
\* calls with the same delta leave what one call with the doubled delta would;
\* and a translate on a Components transform adds the delta to the position
\* and leaves rotation, scale and offset as they were.
C9_TranslateAdditive ==
    /\ \A d \in TVecs :
         LET t == params.transform
             once == Transform_translate(t, d[1], d[2], d[3])
             dd == Double(d)
         IN  Transform_translate(once, d[1], d[2], d[3])
               = Transform_translate(t, dd[1], dd[2], dd[3])
    /\ \A i \in 1..Len(history) :
         history[i].op = "translate" =>
            LET b == history[i].before.transform
                a == After(i).transform
                d == history[i].args
            IN  /\ After(i).tex_rect = history[i].before.tex_rect
                /\ After(i).color = history[i].before.color
                /\ b.shape = "Components" =>
                      /\ a.shape = "Components"
                      /\ a.pos = <<b.pos[1] + d[1], b.pos[2] + d[2], b.pos[3] + d[3]>>
                      /\ a.rotation = b.rotation
                      /\ a.scale = b.scale
                      /\ a.offset = b.offset
                /\ (i < Len(history) /\ history[i + 1].op = "translate"
                        /\ history[i + 1].args = d) =>
                      LET dd == Double(d)
                      IN  After(i + 1).transform
                            = Transform_translate(b, dd[1], dd[2], dd[3])

\* C9 witness: translate was called twice in a row with the same non-zero
\* delta on a Components transform whose rotation, scale and offset are not
\* the identity's.
C9_Witness ==
    /\ Len(history) >= 2
    /\ history[Len(history)].op = "translate"
    /\ history[Len(history) - 1].op = "translate"
    /\ history[Len(history)].args = history[Len(history) - 1].args
    /\ history[Len(history)].args = <<1, 2, 3>>
    /\ history[Len(history) - 1].before.transform.shape = "Components"
    /\ history[Len(history) - 1].before.transform.rotation = 1
    /\ history[Len(history) - 1].before.transform.scale = <<2, 3, 1>>
    /\ params.transform.pos = <<3, 5, 6>>

\* the elementary matrix a mutator left-multiplies a Matrix transform by
ElementaryMatrix(op_, args_) ==
    CASE op_ = "translate" -> from_translation(args_)
      [] op_ = "dest" -> from_translation(args_)
      [] OTHER -> from_nonuniform_scale(args_[1], args_[2], args_[3])

\* C10: translate, scale and set-destination keep the shape of the transform,
\* and on a Matrix transform each leaves the product of its elementary matrix
\* (translation, scale, destination) with the matrix stored before the call.
C10_MatrixLeftMultiply ==
    \A i \in 1..Len(history) :
        history[i].op \in {"translate", "nonuniform_scale", "scale", "dest"} =>
            LET b == history[i].before.transform
                a == After(i).transform
            IN  /\ a.shape = b.shape
                /\ b.shape = "Matrix" =>
                      a.mat = Mat4Mul(ElementaryMatrix(history[i].op, history[i].args), b.mat)

(***************************************************************************)
(* A caller that builds pipelines and keeps a PipelineObjectSet of its own *)
(* (new_pipeline, PipelineObjectSet::new / insert / get are public).       *)
(***************************************************************************)
Handles == {built[i] : i \in 1..Len(built)}

BuildPipeline ==
    \E blend \in BlendMode :
        /\ Len(built) < MaxPipelines
        /\ built' = Append(built, new_pipeline(Len(built), blend))
        /\ lastCall' = [op |-> "new_pipeline", mode |-> blend]
        /\ UNCHANGED <<pos, first_bound, prog, registered, transformVars, drawVars>>

PosInsert ==
    \E mode \in BlendMode, h \in Handles :
        /\ pos' = PipelineObjectSet_insert(pos, mode, h)
        /\ first_bound' = IF mode \in DOMAIN first_bound THEN first_bound
                          ELSE [m \in DOMAIN first_bound \cup {mode} |->
                                  IF m = mode THEN h ELSE first_bound[m]]
        /\ lastCall' = [op |-> "insert", mode |-> mode, handle |-> h]
        /\ UNCHANGED <<built, prog, registered, transformVars, drawVars>>

PosGet ==
    \E mode \in BlendMode :
        /\ lastCall' = [op |-> "get", mode |-> mode,
                        result |-> PipelineObjectSet_get(pos, mode)]
        /\ UNCHANGED <<built, pos, first_bound, prog, registered, transformVars, drawVars>>

NextPosSet ==
    \/ BuildPipeline
    \/ PosInsert
    \/ PosGet

SpecPosSet == Init /\ [][NextPosSet]_vars

(***************************************************************************)
(* A ShaderProgram: its two constructors and the ShaderHandle methods.     *)
(***************************************************************************)
ProgCall(op_, result_) ==
    [op |-> op_, result |-> result_, prog_before |-> prog, built_before |-> built]

ProgNew ==
    \E blend \in BlendMode :
        /\ Len(built) < MaxPipelines
        /\ built' = Append(built, new_pipeline(Len(built), blend))
        /\ prog' = ShaderProgram_new(Len(built), blend)
        /\ registered' = Some([mode |-> blend, handle |-> new_pipeline(Len(built), blend)])
        /\ lastCall' = [op |-> "new", mode |-> blend]
        /\ UNCHANGED <<pos, first_bound, transformVars, drawVars>>

ProgFromPipeline ==
    \E mode \in BlendMode, h \in Handles :
        /\ prog' = ShaderProgram_from_pipeline(mode, h)
        /\ registered' = Some([mode |-> mode, handle |-> h])
        /\ lastCall' = [op |-> "from_pipeline", mode |-> mode, handle |-> h]
        /\ UNCHANGED <<built, pos, first_bound, transformVars, drawVars>>

ProgBlendMode ==
    /\ prog # NoProgram
    /\ lastCall' = ProgCall("blend_mode", Ret(blend_mode(prog)))
    /\ UNCHANGED <<built, pos, first_bound, prog, registered, transformVars, drawVars>>

ProgPipeline ==
    /\ prog # NoProgram
    /\ lastCall' = ProgCall("pipeline", pipeline(prog))
    /\ UNCHANGED <<built, pos, first_bound, prog, registered, transformVars, drawVars>>

ProgLayout ==
    /\ prog # NoProgram
    /\ lastCall' = ProgCall("layout", layout(prog))
    /\ UNCHANGED <<built, pos, first_bound, prog, registered, transformVars, drawVars>>

ProgDraw ==
    \E pipe_data \in SamplePayloads, fault \in Faults :
        /\ prog # NoProgram
        /\ lastCall' = ProgCall("draw", ShaderProgram_draw(prog, <<>>, pipe_data, fault))
        /\ UNCHANGED <<built, pos, first_bound, prog, registered, transformVars, drawVars>>

NextProgram ==
    \/ BuildPipeline
    \/ ProgNew
    \/ ProgFromPipeline
    \/ ProgBlendMode
    \/ ProgPipeline
    \/ ProgLayout
    \/ ProgDraw

SpecProgram == Init /\ [][NextProgram]_vars

(***************************************************************************)
(* The ShaderHandle methods as functions of the program value: the program *)
(* is drawn from every value of the type, also those in which the current  *)
(* mode has no pipeline (no constructor makes one).                        *)
(***************************************************************************)
SampleHandles == <<new_pipeline(0, "Add"), new_pipeline(1, "Alpha")>>

PipelineSets ==
    UNION { [D -> {SampleHandles[1], SampleHandles[2]}] : D \in SUBSET BlendMode }

InitResolve ==
    /\ InitTransform
    /\ InitDraw
    /\ built = SampleHandles
    /\ pos = PipelineObjectSet_new(16)
    /\ first_bound = EmptyMap
    /\ prog \in [pipelines : PipelineSets, current_mode : BlendMode]
    /\ registered = None
    /\ lastCall = NoCall

NextResolve ==
    \/ ProgBlendMode
    \/ ProgPipeline
    \/ ProgLayout
    \/ ProgDraw

SpecResolve == InitResolve /\ [][NextResolve]_vars

(***************************************************************************)
(* Claims about the pipeline set and the shader program.                   *)
(***************************************************************************)
\* C2 (SpecPosSet): a PipelineObjectSet holds at most one handle per blend
\* mode, and the handle bound to a mode is the one its first insert gave: a
\* later insert for a registered mode does not replace the binding.
C2_FirstInsertWins ==
    /\ DOMAIN pos \subseteq BlendMode
    /\ DOMAIN pos = DOMAIN first_bound
    /\ \A m \in DOMAIN pos : pos[m] = first_bound[m]

\* the commands of a sequence that name a pipeline, with the pipeline they name
PipelinesNamed(cb) ==
    {cb[i].pipeline : i \in {k \in 1..Len(cb) : cb[k].cmd = "bind_pipeline_graphics"}}
    \cup {cb[i].pipeline_layout : i \in {k \in 1..Len(cb) : cb[k].cmd = "bind_descriptor_sets"}}
    \cup {cb[i].set.layout.pipeline : i \in {k \in 1..Len(cb) : cb[k].cmd = "bind_descriptor_sets"}}

\* C3 (SpecProgram): once the program has a pipeline registered for a mode,
\* every lookup for it - pipeline(), layout() and the lookups draw makes -
\* gives the pipeline that was registered, whichever of the four modes it is;
\* and a lookup or a draw builds no pipeline and leaves the pipeline set and
\* the current mode as the constructor made them.
C3_LookupStable ==
    lastCall.op \in {"blend_mode", "pipeline", "layout", "draw"} =>
        /\ registered # None
        /\ built = lastCall.built_before
        /\ prog = lastCall.prog_before
        /\ DOMAIN prog.pipelines = {registered.val.mode}
        /\ prog.pipelines[registered.val.mode] = registered.val.handle
        /\ prog.current_mode = registered.val.mode
        /\ lastCall.op = "blend_mode" => lastCall.result = Ret(registered.val.mode)
        /\ lastCall.op = "pipeline" => lastCall.result = Ret(registered.val.handle)
        /\ lastCall.op = "layout" => lastCall.result = Ret(set_layouts(registered.val.handle))
        /\ lastCall.op = "draw" =>
              /\ PipelinesNamed(lastCall.result.command_buffer) = {registered.val.handle.id}
              /\ \E i \in 1..Len(lastCall.result.command_buffer) :
                    lastCall.result.command_buffer[i].cmd = "bind_pipeline_graphics"

\* C3 witness: a draw that returned, on a program built for Invert from the
\* second pipeline built.
C3_Witness ==
    /\ lastCall.op = "draw"
    /\ lastCall.result.tag = "Ret"
    /\ registered = Some([mode |-> "Invert", handle |-> new_pipeline(1, "Invert")])
    /\ Len(built) = 2

\* C4 (SpecResolve): when the current mode has no pipeline in the set,
\* pipeline() and layout() panic and draw panics before it records anything;
\* none of them gives the pipeline of another mode or returns normally.
C4_MissPanics ==
    (/\ lastCall.op \in {"pipeline", "layout", "draw"}
     /\ lastCall.prog_before.current_mode \notin DOMAIN lastCall.prog_before.pipelines) =>
        /\ lastCall.result.tag = "Panic"
        /\ lastCall.op = "draw" => lastCall.result.command_buffer = <<>>
        /\ prog = lastCall.prog_before

\* C4 witness: draw was called with Alpha current while only Add and Invert
\* have pipelines.
C4_Witness ==
    /\ lastCall.op = "draw"
    /\ lastCall.prog_before.current_mode = "Alpha"
    /\ DOMAIN lastCall.prog_before.pipelines = {"Add", "Invert"}
    /\ lastCall.result.tag = "Panic"

(***************************************************************************)
(* The frame protocol: the application inserts into the batch, and per     *)
(* frame calls begin_frame, draw / draw_with, present.  A draw that panics *)
(* aborts the frame's remaining draws; present and the next begin_frame    *)
(* can still be called.                                                    *)
(***************************************************************************)
NumDraws(cb) == Cardinality({i \in 1..Len(cb) : cb[i].cmd = "bind_pipeline_graphics"})

Insert ==
    \E info \in SampleInfos :
        /\ Len(batch.sprites) < MaxSprites
        /\ batch' = SpriteBatch_insert(batch, info)
        /\ inserted' = Append(inserted, info)
        /\ flat' = None
        /\ prevFlat' = None
        /\ UNCHANGED <<current_shader, command_buffer, phase, lastDraw,
                       transformVars, pipelineVars>>

Flatten ==
    LET f == SpriteBatch_flatten(batch)
    IN  /\ batch' = f.self
        /\ flat' = Some([vertices |-> f.vertices, instances |-> f.instances])
        /\ prevFlat' = flat
        /\ UNCHANGED <<inserted, current_shader, command_buffer, phase, lastDraw,
                       transformVars, pipelineVars>>

BeginFrame ==
    /\ phase = "idle"
    /\ phase' = "frame"
    /\ UNCHANGED <<batch, flat, prevFlat, inserted, current_shader, command_buffer,
                   lastDraw, transformVars, pipelineVars>>

DrawCall(kind_, shader_, r) ==
    [kind |-> kind_, prev |-> current_shader, shader |-> shader_, tag |-> r.tag,
     n |-> Len(inserted),
     recorded |-> SubSeq(r.ctx.command_buffer, Len(command_buffer) + 1,
                         Len(r.ctx.command_buffer))]

Draw ==
    \E fault \in Faults :
        LET r == graphics_draw(Context(current_shader, command_buffer), batch, fault)
        IN  /\ phase = "frame"
            /\ NumDraws(command_buffer) < MaxDraws
            /\ batch' = r.drawable
            /\ current_shader' = r.ctx.current_shader
            /\ command_buffer' = r.ctx.command_buffer
            /\ phase' = IF r.tag = "Panic" THEN "aborted" ELSE "frame"
            /\ lastDraw' = DrawCall("draw", None, r)
            /\ UNCHANGED <<flat, prevFlat, inserted, transformVars, pipelineVars>>

DrawWith ==
    \E shader \in ShaderId, fault \in Faults :
        LET r == draw_with(Context(current_shader, command_buffer), batch, shader, fault)
        IN  /\ phase = "frame"
            /\ NumDraws(command_buffer) < MaxDraws
            /\ batch' = r.drawable
            /\ current_shader' = r.ctx.current_shader
            /\ command_buffer' = r.ctx.command_buffer
            /\ phase' = IF r.tag = "Panic" THEN "aborted" ELSE "frame"
            /\ lastDraw' = DrawCall("draw_with", Some(shader), r)
            /\ UNCHANGED <<flat, prevFlat, inserted, transformVars, pipelineVars>>

Present ==
    /\ phase \in {"frame", "aborted"}
    /\ phase' = "idle"
    /\ command_buffer' = <<>>
    /\ UNCHANGED <<batch, flat, prevFlat, inserted, current_shader, lastDraw,
                   transformVars, pipelineVars>>

NextDraw ==
    \/ Insert
    \/ Flatten
    \/ BeginFrame
    \/ Draw
    \/ DrawWith
    \/ Present

SpecDraw == Init /\ [][NextDraw]_vars

(***************************************************************************)
(* Claims about the batch and the frame protocol, checked under SpecDraw.  *)
(***************************************************************************)
\* C1: draw_with leaves the shader selection that was active before the
\* call on every exit path, also when the drawable's draw panicked: after
\* the call ctx.current_shader is the previous shader, not the override.
C1_ShaderRestoredOnEveryExit ==
    lastDraw.kind = "draw_with" => current_shader = lastDraw.prev

IsDrawCommand(c) == c.cmd = "draw"

\* C5: one draw of a batch that returns has recorded exactly one draw
\* command, with vertex count 4 and instance count the number of instances
\* of the batch, whatever that number is; a draw that panicked recorded none.
C5_OneInstancedDraw ==
    lastDraw.kind \in {"draw", "draw_with"} =>
        LET d == SelectSeq(lastDraw.recorded, IsDrawCommand)
        IN  /\ lastDraw.tag = "Ret" =>
                /\ Len(d) = 1
                /\ d[1].vertex_count = 4
                /\ d[1].instance_count = lastDraw.n
                /\ d[1].first_vertex = 0
                /\ d[1].first_instance = 0
            /\ lastDraw.tag = "Panic" => Len(d) = 0

\* C5 witness: a batch with four inserts was drawn and the draw recorded
\* one draw command with instance count 4.
C5_Witness ==
    /\ lastDraw.kind = "draw"
    /\ lastDraw.tag = "Ret"
    /\ lastDraw.n = 4
    /\ \E i \in 1..Len(lastDraw.recorded) :
          /\ lastDraw.recorded[i].cmd = "draw"
          /\ lastDraw.recorded[i].instance_count = 4

\* C6: after N inserts, flattening gives N instance records, record i being
\* the source rectangle, the color and the matrix of the i-th DrawInfo
\* inserted; none is dropped, duplicated or reordered, and the empty batch
\* gives no instance.
C6_FlattenInInsertionOrder ==
    flat # None =>
        /\ Len(flat.val.instances) = Len(inserted)
        /\ \A i \in 1..Len(inserted) :
              flat.val.instances[i] =
                  [src |-> <<inserted[i].tex_rect.x, inserted[i].tex_rect.y,
                             inserted[i].tex_rect.w, inserted[i].tex_rect.h>>,
                   color |-> inserted[i].color,
                   transform |-> as_mat4(inserted[i].transform)]

\* C6 witness: a batch of three inserts, the first two different, flattened.
C6_Witness ==
    /\ flat # None
    /\ Len(inserted) = 3
    /\ inserted[1] # inserted[2]
    /\ Len(flat.val.instances) = 3

\* C7: flattening and drawing leave the batch's image and its sequence of
\* DrawInfo as the inserts made them, and two flatten calls with no insert
\* between them give the same quad and the same instance records.
C7_FlattenReadOnly ==
    /\ batch = [image |-> Image, sprites |-> inserted]
    /\ flat # None => flat.val.vertices = QUAD_VERTICES
    /\ prevFlat # None => flat = prevFlat

\* C7 witness: a batch of two sprites was flattened twice and drawn, with
\* no insert since.
C7_Witness ==
    /\ prevFlat # None
    /\ Len(inserted) = 2
    /\ lastDraw.kind = "draw"
    /\ lastDraw.tag = "Ret"
    /\ lastDraw.n = 2

(***************************************************************************)
(* Further claims about Transform / DrawInfo (SpecTransform).              *)
(***************************************************************************)
\* C11: rotate(x, y, z) leaves the transform as it was in both shapes: no
\* field of a Components transform changes, and the matrix of a Matrix
\* transform is the same before and after the call.
C11_RotateLeavesTransform ==
    \A i \in 1..Len(history) :
        history[i].op = "rotate" => After(i) = history[i].before

Neg(v) == <<-v[1], -v[2], -v[3]>>

\* translate(p) * translate(o) * rotate_z(r) * scale(s) * translate(-o):
\* scale by s and rotate by r, both about the pivot o, then translate by p
ComposeAboutPivot(p, r, s, o) ==
    Mat4Mul(from_translation(p),
      Mat4Mul(from_translation(o),
        Mat4Mul(from_angle_z(r),
          Mat4Mul(from_nonuniform_scale(s[1], s[2], s[3]), from_translation(Neg(o))))))

\* translate(p) * translate(o) * rotate_z(r) * translate(-o) * scale(s):
\* scale by s about the origin, rotate by r about the pivot o, translate by p
ComposeScaleFirst(p, r, s, o) ==
    Mat4Mul(from_translation(p),
      Mat4Mul(from_translation(o),
        Mat4Mul(from_angle_z(r),
          Mat4Mul(from_translation(Neg(o)), from_nonuniform_scale(s[1], s[2], s[3])))))

\* C12 as stated: the matrix a Components transform converts to is the
\* homogeneous matrix of scale by s, rotate by r about the pivot o, translate
\* to position p, with the three-component vectors p, s, o as stored (the
\* scale taken about the pivot or about the origin).
C12_FullComposition ==
    (instance # None /\ params.transform.shape = "Components") =>
        LET t == params.transform
        IN  \/ instance.val.transform = ComposeAboutPivot(t.pos, t.rotation, t.scale, t.offset)
            \/ instance.val.transform = ComposeScaleFirst(t.pos, t.rotation, t.scale, t.offset)

\* C12 amended: the matrix a Components transform converts to is the matrix
\* of scale by (s.x, s.y, 1) and rotation by r about the z axis, both about
\* the pivot o, then translation by (p.x, p.y, 0); the z components of
\* position, scale and offset do not enter it.
C12_PlanarComposition ==
    (instance # None /\ params.transform.shape = "Components") =>
        LET t == params.transform
        IN  instance.val.transform =
                ComposeAboutPivot(<<t.pos[1], t.pos[2], 0>>, t.rotation,
                                  <<t.scale[1], t.scale[2], 1>>, t.offset)

\* C12 witness: a transform with a quarter-turn rotation, a non-unit scale, a
\* pivot off the origin and a non-zero position was converted.
C12_Witness ==
    /\ instance # None
    /\ params.transform.shape = "Components"
    /\ params.transform.rotation = 1
    /\ params.transform.scale = <<2, 3, 1>>
    /\ params.transform.offset = <<1, 0, 0>>
    /\ params.transform.pos = <<2, 3, 3>>
    /\ instance.val.transform = << <<0, 2, 0, 0>>, <<-3, 0, 0, 0>>, <<0, 0, 1, 0>>, <<3, 1, 0, 1>> >>

\* the DrawInfo the claim describes: identity transform, opaque white, full rectangle
IdentityDrawInfo ==
    [tex_rect |-> [x |-> 0, y |-> 0, w |-> 1, h |-> 1],
     color |-> <<1, 1, 1, 1>>,
     transform |-> [shape |-> "Components", pos |-> <<0, 0, 0>>, rotation |-> 0,
                    scale |-> <<1, 1, 1>>, offset |-> <<0, 0, 0>>]]

\* C13: Transform::identity() is the Components shape with zero position,
\* rotation and offset and unit scale, and converts to the identity matrix;
\* DrawInfo::default(), DrawInfo::new() and a DrawInfo after reset() carry
\* that transform with opaque white tint and the rectangle (0, 0, 1, 1).
C13_IdentityDefaults ==
    /\ Transform_identity = IdentityDrawInfo.transform
    /\ as_mat4(Transform_identity)
         = << <<1, 0, 0, 0>>, <<0, 1, 0, 0>>, <<0, 0, 1, 0>>, <<0, 0, 0, 1>> >>
    /\ DrawInfo_default = IdentityDrawInfo
    /\ DrawInfo_new = IdentityDrawInfo
    /\ \A i \in 1..Len(history) :
          history[i].op = "reset" => After(i) = IdentityDrawInfo
    /\ (instance # None /\ params = IdentityDrawInfo) =>
          instance.val = [src |-> <<0, 0, 1, 1>>, color |-> <<1, 1, 1, 1>>,
                          transform |-> << <<1, 0, 0, 0>>, <<0, 1, 0, 0>>,
                                           <<0, 0, 1, 0>>, <<0, 0, 0, 1>> >>]

\* C13 witness: a DrawInfo with a Matrix transform that is not the identity
\* was reset and then converted.
C13_Witness ==
    /\ Len(history) >= 2
    /\ history[Len(history)].op = "reset"
    /\ history[Len(history)].before.transform.shape = "Matrix"
    /\ history[Len(history)].before.transform.mat # Mat4Identity
    /\ instance # None
    /\ instance.val.transform = Mat4Identity

\* C14 (SpecProgram): in every state of a program built by new or by
\* from_pipeline the current blend mode has a pipeline in the program's set,
\* the mode selected is the mode the constructor registered its pipeline for,
\* and pipeline() and layout() return instead of panicking, both when asked
\* in that state and in every call the program has answered.
C14_CurrentModeRegistered ==
    prog # NoProgram =>
        /\ prog.current_mode \in BlendMode
        /\ prog.current_mode \in DOMAIN prog.pipelines
        /\ PipelineObjectSet_get(prog.pipelines, prog.current_mode).tag = "Some"
        /\ registered # None
        /\ registered.val.mode = prog.current_mode
        /\ pipeline(prog).tag = "Ret"
        /\ layout(prog).tag = "Ret"
        /\ lastCall.op \in {"pipeline", "layout"} => lastCall.result.tag = "Ret"

\* C14 witness: layout() answered on a program that from_pipeline built for
\* Invert from a pipeline that was itself built for Add.
C14_Witness ==
    /\ lastCall.op = "layout"
    /\ lastCall.result.tag = "Ret"
    /\ prog # NoProgram
    /\ prog.current_mode = "Invert"
    /\ registered = Some([mode |-> "Invert", handle |-> new_pipeline(0, "Add")])

(***************************************************************************)
(* Two DrawInfo values built side by side: every call made on params is    *)
(* made on shadow with the same x and y and another z.                     *)
(***************************************************************************)
ZValues == {0, 7}

\* t with the z of its position, scale and offset replaced
WithZ(t, pz, sz, oz) ==
    Components(<<t.pos[1], t.pos[2], pz>>, t.rotation,
               <<t.scale[1], t.scale[2], sz>>, <<t.offset[1], t.offset[2], oz>>)

ZWithTransform ==
    \E t \in {u \in InputTransforms : u.shape = "Components"}, pz, sz, oz \in ZValues :
        /\ params' = DrawInfo_with_transform(t)
        /\ shadow' = DrawInfo_with_transform(WithZ(t, pz, sz, oz))
        /\ history' = <<>>
        /\ instance' = None
        /\ shadow_instance' = None
        /\ UNCHANGED <<pipelineVars, drawVars>>

ZTranslate ==
    \E v \in TVecs, z \in ZValues :
        /\ CanMutate
        /\ params' = DrawInfo_translate(params, v[1], v[2], v[3])
        /\ shadow' = DrawInfo_translate(shadow, v[1], v[2], z)
        /\ history' = Append(history, Call("translate", v))
        /\ instance' = None
        /\ shadow_instance' = None
        /\ UNCHANGED <<pipelineVars, drawVars>>

ZDest ==
    \E v \in TVecs, z \in ZValues :
        /\ CanMutate
        /\ params' = DrawInfo_dest(params, v[1], v[2], v[3])
        /\ shadow' = DrawInfo_dest(shadow, v[1], v[2], z)
        /\ history' = Append(history, Call("dest", v))
        /\ instance' = None
        /\ shadow_instance' = None
        /\ UNCHANGED <<pipelineVars, drawVars>>

ZNonuniformScale ==
    \E v \in TVecs, z \in ZValues :
        /\ CanMutate
        /\ params' = DrawInfo_nonuniform_scale(params, v[1], v[2], v[3])
        /\ shadow' = DrawInfo_nonuniform_scale(shadow, v[1], v[2], z)
        /\ history' = Append(history, Call("nonuniform_scale", v))
        /\ instance' = None
        /\ shadow_instance' = None
        /\ UNCHANGED <<pipelineVars, drawVars>>

ZConvert ==
    /\ instance' = Some(InstanceData_from(params))
    /\ shadow_instance' = Some(InstanceData_from(shadow))
    /\ UNCHANGED <<params, history, shadow, pipelineVars, drawVars>>

NextZ ==
    \/ ZWithTransform
    \/ ZTranslate
    \/ ZDest
    \/ ZNonuniformScale
    \/ ZConvert

SpecZ == Init /\ [][NextZ]_vars

\* two Components transforms that agree on rotation and on the x and y of
\* position, scale and offset
AgreeOnXY(a, b) ==
    /\ a.shape = "Components" /\ b.shape = "Components"
    /\ a.rotation = b.rotation
    /\ \A k \in 1..2 : /\ a.pos[k] = b.pos[k]
                       /\ a.scale[k] = b.scale[k]
                       /\ a.offset[k] = b.offset[k]

\* C15 (SpecZ): the matrix of a Components transform does not depend on a z
\* component.  Replacing the z of position, scale and offset of the transform
\* reached by any values leaves as_mat4 what it was; and two DrawInfo values
\* built by the same translate, dest and nonuniform_scale calls with
\* different z arguments agree on x, y and rotation and convert to the same
\* instance record.
C15_ZIndependent ==
    /\ params.transform.shape = "Components" =>
          \A pz, sz, oz \in ZValues :
              as_mat4(WithZ(params.transform, pz, sz, oz)) = as_mat4(params.transform)
    /\ AgreeOnXY(params.transform, shadow.transform)
    /\ as_mat4(params.transform) = as_mat4(shadow.transform)
    /\ instance # None =>
          /\ shadow_instance # None
          /\ instance.val = shadow_instance.val

\* C15 witness: both values were converted after three calls, and they
\* differ in the z of position and of scale and of offset.
C15_Witness ==
    /\ instance # None
    /\ shadow_instance # None
    /\ Len(history) = 3
    /\ {history[i].op : i \in 1..3} = {"translate", "nonuniform_scale"}
    /\ params.transform.rotation = 3
    /\ params.transform.pos[3] # shadow.transform.pos[3]
    /\ params.transform.scale[3] # shadow.transform.scale[3]
    /\ params.transform.offset[3] # shadow.transform.offset[3]

====
